---- MODULE Spec2Model ----
(***************************************************************************)
(* Order fulfilment, wallet ledger and pending-earnings engine of the      *)
(* marketplace (server/routes.ts over the DatabaseStorage class).          *)
(*                                                                         *)
(* Every request handler is a sequence of awaited store calls with no      *)
(* transaction around them; each awaited call is one atomic step here and  *)
(* the steps of different requests interleave freely.                      *)
(*                                                                         *)
(* Money is counted in hundredths (the store's numeric(.,2) columns), time *)
(* in half-hours.                                                          *)
(***************************************************************************)
EXTENDS Integers, Sequences, FiniteSets, Bags, TLC

(* ------------------------------ bounds -------------------------------- *)
NumItems == 3          \* product_items rows the account listing can hold
NumReq == 2            \* POST /api/orders requests (possibly concurrent)
MaxQty == 2            \* largest quantity a request asks for
MaxNow == 2            \* the clock stops here (half-hours)
MaxAdminOps == 2       \* admin confirm / cancel calls on orders
MaxUploadOps == 3      \* inventory calls of the seller
MaxLinks == 3          \* referrals rows
MaxStoreFail == 1      \* store errors injected into createOrder
NumJobs == 3           \* pending-earnings sweeps and admin calls (possibly concurrent)
MaxDays == 4           \* days the pending-earnings clock runs
MaxDeposits == 3       \* deposits rows
MaxWithdrawals == 1    \* withdrawals rows
MaxLedgerOps == 4      \* calls to the other wallet routes
MaxPayouts == 2        \* withdrawals rows of the payout runs
MaxPayoutOps == 8      \* calls to the withdrawal routes

(* ------------------------- program constants -------------------------- *)
ReserveTicks == 1      \* 30 * 60 * 1000 ms
HoldDays == 3          \* releaseDate.getDate() + 3
FeePercent == 5        \* commissionRate = 0.05
DefaultRate == 500     \* referrals.commission_rate default "5.00"

DayTicks == 24 * 2
HoldTicks == HoldDays * DayTicks

(* ------------------------------ universe ------------------------------ *)
Buyers == {"b1", "b2"}
Seller == "s1"
Users == Buyers \cup {Seller}
ItemIds == 1 .. NumItems
Reqs == 1 .. NumReq
JobIds == 1 .. NumJobs
UnitPrice == 100000 * 100
NoTime == 0 - 1        \* SQL NULL in a timestamp column
NoItem == 0            \* undefined / NULL productItemId
NoOrder == 0           \* NULL relatedOrderId
NoUid == 0             \* hashUid(content) = ""
Uids == 1 .. NumItems  \* the fingerprints account lines can have

VARIABLES
    now,        \* Date.now()
    stock,      \* products.stock of the account listing
    items,      \* product_items: id -> [status, reservedUntil]
    orders,     \* orders: id -> row (the id of an order is its request's)
    balance,    \* users.wallet_balance
    ledger,     \* wallet_transactions, a bag of rows
    earnings,   \* pending_earnings, in insertion order
    referrals,  \* referrals: referred user -> row
    codeStats,  \* user_referral_codes.total_earnings per user
    deposits,   \* deposits, in insertion order
    withdrawals,\* withdrawals, in insertion order
    disputes,   \* disputes: the orders that have one
    listed,     \* whether the listing's products row exists
    itemUid,    \* product_items.uid_hash of each row
    links,      \* referrals rows, in insertion order
    accounts,   \* users: the ids that are registered
    codes,      \* user_referral_codes: the users that own a code
    productPrice, \* products.price of the listing
    category,   \* products.category of the listing
    req,        \* the local variables of each POST /api/orders request
    jobs,       \* the local variables of the pending-earnings sweeps and calls
    adminOps,   \* calls made so far to the routes other than POST /api/orders
    storeFails  \* store errors injected so far

catalogV == <<stock, items>>
moneyV == <<balance, ledger>>
refV == <<referrals, codeStats>>
userV == <<links, accounts, codes>>
productV == <<productPrice, category>>
regV == <<itemUid, userV, productV>>
miscV == <<deposits, withdrawals, disputes, listed, regV, jobs>>
ctlV == <<adminOps, storeFails>>
vars == <<now, catalogV, orders, moneyV, earnings, refV, miscV, req, ctlV>>

(* ------------------------------- helpers ------------------------------ *)
Min(S) == CHOOSE x \in S : \A y \in S : x <= y

RECURSIVE SumBag(_, _)
SumBag(B, S) ==
    IF S = {} THEN 0
    ELSE LET e == CHOOSE x \in S : TRUE
         IN  e.amount * CopiesIn(e, B) + SumBag(B, S \ {e})

\* signed sum of an account's wallet_transactions rows
LedgerSum(u) ==
    SumBag(ledger, {e \in BagToSet(ledger) : e.userId = u /\ e.type = "credit"})
    - SumBag(ledger, {e \in BagToSet(ledger) : e.userId = u /\ e.type = "debit"})

\* (parseFloat(product.price) * quantity).toFixed(2)
totalPrice(q) == productPrice * q

\* (amount * num / den).toFixed(2): the product rounded half up to a whole
\* number of hundredths, computed without leaving 32 bits
mulFixed2(amount, num, den) ==
    (amount \div den) * num + ((amount % den) * num + den \div 2) \div den

\* the seller's share with no platform fee taken off
sellerAmountNoFee(total) == total

\* (parseFloat(totalPrice) * (1 - commissionRate)).toFixed(2)
sellerAmount(total) == mulFixed2(total, 100 - FeePercent, 100)

(* ------------------------- DatabaseStorage ---------------------------- *)
\* rows a select ... where status = 'available' returns
AvailableIds(its) == {i \in ItemIds : its[i].status = "available"}

\* reserved rows whose reservedUntil is before the current time
ExpiredIds(its) ==
    {i \in ItemIds : /\ its[i].status = "reserved"
                     /\ its[i].reservedUntil # NoTime
                     /\ its[i].reservedUntil < now}

\* a reservation that never expires
reserveWithoutExpiry(its, id, until) ==
    IF its[id].status = "absent" THEN its
    ELSE [its EXCEPT ![id] = [status |-> "reserved", reservedUntil |-> NoTime]]

reserveProductItem(its, id, until) ==
    IF its[id].status = "absent" THEN its
    ELSE [its EXCEPT ![id] = [status |-> "reserved", reservedUntil |-> until]]

\* an UPDATE of the status column alone
updateStatusOnly(its, id, st) ==
    IF its[id].status = "absent" THEN its ELSE [its EXCEPT ![id].status = st]

updateProductItemStatus(its, id, st) ==
    IF its[id].status = "absent" THEN its
    ELSE [its EXCEPT ![id] =
            [status |-> st,
             reservedUntil |-> IF st \in {"sold", "available"} THEN NoTime
                               ELSE @.reservedUntil]]

\* the UPDATE both expiry resets run
resetExpired(its) ==
    [i \in ItemIds |->
        IF i \in ExpiredIds(its)
        THEN [status |-> "available", reservedUntil |-> NoTime]
        ELSE its[i]]

updateUserBalance(bal, id, amount) == [bal EXCEPT ![id] = amount]

createWalletTransaction(l, u, t, amount, o) ==
    l (+) SetToBag({[userId |-> u, type |-> t, amount |-> amount, relatedOrderId |-> o]})

\* the SQL increment: wallet_balance = COALESCE(wallet_balance, 0) + amount
creditUserWallet(bal, id, amount) ==
    IF amount <= 0 THEN bal ELSE [bal EXCEPT ![id] = @ + amount]

\* the commission taken from what is left after the platform fee
referralCommissionOfNet(price, rate) ==
    mulFixed2(sellerAmount(price), rate, 100 * 100)

\* (parseFloat(price) * (rate / 100)).toFixed(2), the rate in hundredths of
\* a percent as the decimal(5,2) column stores it
referralCommission(price, rate) == mulFixed2(price, rate, 100 * 100)

\* the commission the referral block pays for a purchase of buyer b, 0 when
\* there is no active link
commissionFor(b, price) ==
    IF referrals[b].referrerId # "none" /\ referrals[b].isActive
    THEN referralCommission(price, referrals[b].commissionRate)
    ELSE 0

createPendingEarning(es, o, amount, releaseAt) ==
    Append(es, [sellerId |-> Seller, orderId |-> o, amount |-> amount,
                status |-> "pending", releaseAt |-> releaseAt, releasedAt |-> NoTime])

NoOrderRow ==
    [status |-> "none", buyerId |-> "b1", productItemId |-> NoItem, quantity |-> 0,
     price |-> 0, paymentMethod |-> "qr", deliveredContent |-> {}, createdAt |-> NoTime]

IdleReq ==
    [pc |-> "idle", buyer |-> "b1", quantity |-> 0, method |-> "qr", stockRead |-> 0,
     item |-> NoItem, balRead |-> 0, sel |-> {}, sold |-> {}, commission |-> 0,
     result |-> "none"]

IdleJob ==
    [kind |-> "none", pc |-> "idle", list |-> <<>>, id |-> 0, balRead |-> 0,
     caller |-> "b1", result |-> "none"]

(* -------------------------------- Init -------------------------------- *)
\* A listing created with n account lines (stock = accounts.length), every
\* buyer's wallet funded by one approved deposit.
Init ==
    /\ now = 0
    /\ \E n \in 1 .. NumItems :
         /\ stock = n
         /\ items = [i \in ItemIds |->
                       IF i <= n THEN [status |-> "available", reservedUntil |-> NoTime]
                       ELSE [status |-> "absent", reservedUntil |-> NoTime]]
    /\ orders = [r \in Reqs |-> NoOrderRow]
    /\ \E k \in 1 .. MaxQty :
         /\ balance = [u \in Users |-> IF u \in Buyers THEN k * UnitPrice ELSE 0]
         /\ ledger = SetToBag({[userId |-> b, type |-> "credit", amount |-> k * UnitPrice,
                                relatedOrderId |-> NoOrder] : b \in Buyers})
         /\ deposits = <<[userId |-> "b1", amount |-> k * UnitPrice, status |-> "approved"],
                         [userId |-> "b2", amount |-> k * UnitPrice, status |-> "approved"]>>
    /\ earnings = <<>>
    /\ referrals = [b \in Buyers |->
                      IF b = "b2"
                      THEN [referrerId |-> "b1", commissionRate |-> DefaultRate,
                            isActive |-> TRUE, totalEarned |-> 0]
                      ELSE [referrerId |-> "none", commissionRate |-> DefaultRate,
                            isActive |-> FALSE, totalEarned |-> 0]]
    /\ codeStats = [u \in Users |-> 0]
    /\ withdrawals = <<>>
    /\ disputes = {}
    /\ listed = TRUE
    /\ itemUid = [i \in ItemIds |-> IF items[i].status = "absent" THEN NoUid ELSE i]
    /\ links = <<[referrerId |-> "b1", referredId |-> "b2"]>>
    /\ accounts = Users
    /\ codes = {"b1"}
    /\ productPrice = UnitPrice
    /\ category = "account"
    /\ jobs = [j \in JobIds |-> IdleJob]
    /\ req = [r \in Reqs |-> IdleReq]
    /\ adminOps = 0
    /\ storeFails = 0

Finish(r, res) == [req EXCEPT ![r].pc = "done", ![r].result = res]
Goto(r, l) == [req EXCEPT ![r].pc = l]

(* ----------------------- POST /api/orders ----------------------------- *)
\* a listing whose category is taken to be "account" whatever it is
anyProduct == TRUE

\* product.category === "account": the listing sells discrete units
accountProduct == category = "account"

\* the request arrives; getProductWithSeller and the stock check
StartOrder(r) ==
    /\ req[r].pc = "idle"
    /\ \A s \in Reqs : s < r => req[s].pc # "idle"
    /\ \E b \in Buyers, q \in 1 .. MaxQty, m \in {"wallet", "qr"} :
         req' = [req EXCEPT ![r] =
                   [@ EXCEPT !.buyer = b, !.quantity = q, !.method = m,
                             !.stockRead = stock,
                             !.pc = IF ~listed \/ (accountProduct /\ stock < q)
                                   THEN "done"
                                   ELSE IF accountProduct THEN "findItem"
                                   ELSE IF m = "wallet" THEN "getUser"
                                   ELSE "createQrOrder",
                             !.result = IF ~listed THEN "not_found"
                                        ELSE IF accountProduct /\ stock < q
                                        THEN "no_stock" ELSE "none"]]
    /\ UNCHANGED <<now, catalogV, orders, moneyV, earnings, refV, miscV, ctlV>>

AfterReserve(r) == IF req[r].method = "wallet" THEN "getUser" ELSE "createQrOrder"

\* storage.getAvailableProductItem: any one row with status available
FindItem(r) ==
    /\ req[r].pc = "findItem"
    /\ \/ /\ AvailableIds(items) = {}
          /\ req' = Goto(r, AfterReserve(r))
       \/ \E i \in AvailableIds(items) :
            req' = [req EXCEPT ![r].item = i, ![r].pc = "reserve"]
    /\ UNCHANGED <<now, catalogV, orders, moneyV, earnings, refV, miscV, ctlV>>

\* storage.reserveProductItem(item.id, now + 30 min)
ReserveItem(r) ==
    /\ req[r].pc = "reserve"
    /\ items' = reserveProductItem(items, req[r].item, now + ReserveTicks)
    /\ req' = Goto(r, AfterReserve(r))
    /\ UNCHANGED <<now, stock, orders, moneyV, earnings, refV, miscV, ctlV>>

\* storage.getUser and the balance check
GetUser(r) ==
    /\ req[r].pc = "getUser"
    /\ req' = IF balance[req[r].buyer] < totalPrice(req[r].quantity)
              THEN Finish(r, "no_balance")
              ELSE [req EXCEPT ![r].balRead = balance[req[r].buyer],
                               ![r].pc = IF accountProduct THEN "resetExpired"
                                         ELSE "debit"]
    /\ UNCHANGED <<now, catalogV, orders, moneyV, earnings, refV, miscV, ctlV>>

\* storage.getAvailableProductItems, first statement
ResetExpired(r) ==
    /\ req[r].pc = "resetExpired"
    /\ items' = resetExpired(items)
    /\ req' = Goto(r, "selectItems")
    /\ UNCHANGED <<now, stock, orders, moneyV, earnings, refV, miscV, ctlV>>

\* storage.getAvailableProductItems, second statement, and the count check
SelectItems(r) ==
    /\ req[r].pc = "selectItems"
    /\ LET av == AvailableIds(items)
           q == req[r].quantity
       IN  IF Cardinality(av) < q
           THEN req' = Finish(r, "no_items")
           ELSE \E S \in SUBSET av :
                  /\ Cardinality(S) = q
                  /\ req' = [req EXCEPT ![r].sel = S, ![r].pc = "markSold"]
    /\ UNCHANGED <<now, catalogV, orders, moneyV, earnings, refV, miscV, ctlV>>

\* one turn of the loop over the selected items
MarkSold(r) ==
    /\ req[r].pc = "markSold"
    /\ LET i == Min(req[r].sel \ req[r].sold)
       IN  /\ items' = updateProductItemStatus(items, i, "sold")
           /\ req' = [req EXCEPT ![r].sold = @ \cup {i},
                                 ![r].pc = IF req[r].sel = req[r].sold \cup {i}
                                           THEN "debit" ELSE "markSold"]
    /\ UNCHANGED <<now, stock, orders, moneyV, earnings, refV, miscV, ctlV>>

\* storage.updateUserBalance(userId, buyer.walletBalance - totalPrice)
Debit(r) ==
    /\ req[r].pc = "debit"
    /\ balance' = updateUserBalance(balance, req[r].buyer,
                                    req[r].balRead - totalPrice(req[r].quantity))
    /\ req' = Goto(r, "debitEntry")
    /\ UNCHANGED <<now, catalogV, orders, ledger, earnings, refV, miscV, ctlV>>

DebitEntry(r) ==
    /\ req[r].pc = "debitEntry"
    /\ ledger' = createWalletTransaction(ledger, req[r].buyer, "debit",
                                         totalPrice(req[r].quantity), NoOrder)
    /\ req' = Goto(r, "createOrder")
    /\ UNCHANGED <<now, catalogV, orders, balance, earnings, refV, miscV, ctlV>>

\* storage.createOrder({... status: "paid"}); the insert may throw, which the
\* handler's catch turns into a 500 with nothing undone
CreatePaidOrder(r) ==
    /\ req[r].pc = "createOrder"
    /\ \/ /\ orders' = [orders EXCEPT ![r] =
                          [status |-> "paid", buyerId |-> req[r].buyer,
                           productItemId |-> IF req[r].sold = {} THEN NoItem
                                             ELSE Min(req[r].sold),
                           quantity |-> req[r].quantity,
                           price |-> totalPrice(req[r].quantity),
                           paymentMethod |-> "wallet", deliveredContent |-> {},
                           createdAt |-> now]]
          /\ req' = Goto(r, "deliver")
          /\ UNCHANGED storeFails
       \/ /\ storeFails < MaxStoreFail
          /\ storeFails' = storeFails + 1
          /\ req' = Finish(r, "error")
          /\ UNCHANGED orders
    /\ UNCHANGED <<now, catalogV, moneyV, earnings, refV, miscV, adminOps>>

\* storage.updateOrderDeliveredContent(order.id, contents of the items)
Deliver(r) ==
    /\ req[r].pc = "deliver"
    /\ orders' = [orders EXCEPT ![r].deliveredContent = req[r].sel]
    /\ req' = Goto(r, "updateStock")
    /\ UNCHANGED <<now, catalogV, moneyV, earnings, refV, miscV, ctlV>>

\* storage.updateProductStock(productId, product.stock - quantity)
UpdateStock(r) ==
    /\ req[r].pc = "updateStock"
    /\ stock' = IF accountProduct THEN req[r].stockRead - req[r].quantity ELSE stock
    /\ req' = Goto(r, "createEarning")
    /\ UNCHANGED <<now, items, orders, moneyV, earnings, refV, miscV, ctlV>>

CreateEarning(r) ==
    /\ req[r].pc = "createEarning"
    /\ earnings' = createPendingEarning(earnings, r, sellerAmount(orders[r].price),
                                        now + HoldTicks)
    /\ req' = Goto(r, "getReferral")
    /\ UNCHANGED <<now, catalogV, orders, moneyV, refV, miscV, ctlV>>

\* storage.getReferralByReferredId, the rate, storage.getUser(referrerId)
GetReferral(r) ==
    /\ req[r].pc = "getReferral"
    /\ LET c == commissionFor(req[r].buyer, orders[r].price)
       IN  req' = IF c > 0
                  THEN [req EXCEPT ![r].commission = c, ![r].pc = "refCredit"]
                  ELSE Finish(r, "created")
    /\ UNCHANGED <<now, catalogV, orders, moneyV, earnings, refV, miscV, ctlV>>

\* storage.creditUserWallet(referral.referrerId, referralCommission)
RefCredit(r) ==
    /\ req[r].pc = "refCredit"
    /\ balance' = creditUserWallet(balance, referrals[req[r].buyer].referrerId,
                                   req[r].commission)
    /\ req' = Goto(r, "refEntry")
    /\ UNCHANGED <<now, catalogV, orders, ledger, earnings, refV, miscV, ctlV>>

RefEntry(r) ==
    /\ req[r].pc = "refEntry"
    /\ ledger' = createWalletTransaction(ledger, referrals[req[r].buyer].referrerId,
                                         "credit", req[r].commission, r)
    /\ req' = Goto(r, "refEarned")
    /\ UNCHANGED <<now, catalogV, orders, balance, earnings, refV, miscV, ctlV>>

\* storage.updateReferralEarnings(referral.id, referralCommission)
RefEarned(r) ==
    /\ req[r].pc = "refEarned"
    /\ referrals' = [referrals EXCEPT ![req[r].buyer].totalEarned = @ + req[r].commission]
    /\ req' = Goto(r, "refTotal")
    /\ UNCHANGED <<now, catalogV, orders, moneyV, earnings, codeStats, miscV, ctlV>>

\* storage.updateReferrerTotalEarnings(referral.referrerId, referralCommission)
RefTotal(r) ==
    /\ req[r].pc = "refTotal"
    /\ codeStats' = [codeStats EXCEPT ![referrals[req[r].buyer].referrerId] =
                                          @ + req[r].commission]
    /\ req' = Finish(r, "created")
    /\ UNCHANGED <<now, catalogV, orders, moneyV, earnings, referrals, miscV, ctlV>>

\* QR payment: storage.createOrder({... status: "pending_payment"})
CreateQrOrder(r) ==
    /\ req[r].pc = "createQrOrder"
    /\ orders' = [orders EXCEPT ![r] =
                    [status |-> "pending_payment", buyerId |-> req[r].buyer,
                     productItemId |-> req[r].item, quantity |-> req[r].quantity,
                     price |-> totalPrice(req[r].quantity), paymentMethod |-> "qr",
                     deliveredContent |-> {}, createdAt |-> now]]
    /\ req' = Finish(r, "created")
    /\ UNCHANGED <<now, catalogV, moneyV, earnings, refV, miscV, ctlV>>

Tick ==
    /\ now < MaxNow
    /\ now' = now + 1
    /\ UNCHANGED <<catalogV, orders, moneyV, earnings, refV, miscV, req, ctlV>>

OrderStep(r) ==
    \/ FindItem(r) \/ ReserveItem(r) \/ GetUser(r)
    \/ ResetExpired(r) \/ SelectItems(r) \/ MarkSold(r) \/ Debit(r)
    \/ DebitEntry(r) \/ CreatePaidOrder(r) \/ Deliver(r) \/ UpdateStock(r)
    \/ CreateEarning(r) \/ GetReferral(r) \/ RefCredit(r) \/ RefEntry(r)
    \/ RefEarned(r) \/ RefTotal(r) \/ CreateQrOrder(r)

\* Concurrent POST /api/orders requests inside one half-hour.
Next ==
    \E r \in Reqs : StartOrder(r) \/ OrderStep(r)

Spec == Init /\ [][Next]_vars

(* ---------------- admin order routes and the cleanup ------------------ *)
InFlight == \E r \in Reqs : req[r].pc \notin {"idle", "done"}
OrderIds == {o \in Reqs : orders[o].status # "none"}

\* the order row with its price computed again from the listing's price
orderAtListPrice(o) == [orders[o] EXCEPT !.price = productPrice * orders[o].quantity]

\* storage.getOrderWithDetails: the orders row
getOrderWithDetails(o) == orders[o]

\* POST /api/admin/orders/:id/confirm
AdminConfirm(o) ==
    /\ adminOps < MaxAdminOps
    /\ o \in OrderIds
    /\ LET order == getOrderWithDetails(o)
           bound == order.productItemId # NoItem /\ items[order.productItemId].status # "absent"
           c == commissionFor(order.buyerId, order.price)
           referrer == referrals[order.buyerId].referrerId
       IN  /\ orders' = [orders EXCEPT ![o].status = "paid",
                                       ![o].deliveredContent =
                                           IF bound THEN {order.productItemId} ELSE @]
           /\ items' = IF bound THEN updateProductItemStatus(items, order.productItemId, "sold")
                       ELSE items
           /\ stock' = IF accountProduct THEN stock - order.quantity ELSE stock
           /\ earnings' = createPendingEarning(earnings, o, sellerAmount(order.price),
                                               now + HoldTicks)
           /\ IF c > 0
              THEN /\ balance' = creditUserWallet(balance, referrer, c)
                   /\ ledger' = createWalletTransaction(ledger, referrer, "credit", c, o)
                   /\ referrals' = [referrals EXCEPT ![order.buyerId].totalEarned = @ + c]
                   /\ codeStats' = [codeStats EXCEPT ![referrer] = @ + c]
              ELSE UNCHANGED <<moneyV, refV>>
    /\ adminOps' = adminOps + 1
    /\ UNCHANGED <<now, miscV, req, storeFails>>

\* POST /api/admin/orders/:id/cancel
AdminCancel(o) ==
    /\ adminOps < MaxAdminOps
    /\ o \in OrderIds
    /\ orders' = [orders EXCEPT ![o].status = "cancelled"]
    /\ items' = IF orders[o].productItemId # NoItem
                THEN updateProductItemStatus(items, orders[o].productItemId, "available")
                ELSE items
    /\ adminOps' = adminOps + 1
    /\ UNCHANGED <<now, stock, moneyV, earnings, refV, miscV, req, storeFails>>

\* POST /api/orders/:id/confirm-payment called by user u, the whole call;
\* a call that is refused changes nothing
ConfirmPayment(u, o) ==
    /\ o \in OrderIds
    /\ orders[o].buyerId = u
    /\ orders[o].status = "pending_payment"
    /\ orders' = [orders EXCEPT ![o].status = "pending_confirmation"]
    /\ UNCHANGED <<now, catalogV, moneyV, earnings, refV, miscV, req, ctlV>>

\* the old orders, whatever their status
StaleOrderIdsAnyStatus ==
    {o \in OrderIds : orders[o].createdAt < now - ReserveTicks}

\* orders cancelExpiredPendingOrders selects
StaleOrderIds ==
    {o \in OrderIds : /\ orders[o].status = "pending_payment"
                      /\ orders[o].createdAt < now - ReserveTicks}

RECURSIVE releaseItemsOf(_, _)
releaseItemsOf(its, O) ==
    IF O = {} THEN its
    ELSE LET o == Min(O)
             i == orders[o].productItemId
         IN  releaseItemsOf(IF i # NoItem /\ its[i].status # "absent"
                            THEN [its EXCEPT ![i] = [status |-> "available",
                                                     reservedUntil |-> NoTime]]
                            ELSE its,
                            O \ {o})

\* POST /api/admin/cleanup: cleanupExpiredReservations, then
\* cancelExpiredPendingOrders
AdminCleanup ==
    /\ items' = releaseItemsOf(resetExpired(items), StaleOrderIds)
    /\ orders' = [o \in Reqs |-> IF o \in StaleOrderIds
                                 THEN [orders[o] EXCEPT !.status = "cancelled"]
                                 ELSE orders[o]]
    /\ UNCHANGED <<now, stock, moneyV, earnings, refV, miscV, req, ctlV>>

\* One request at a time: a handler runs to its response before the next
\* call arrives; the clock moves between calls and inside them.
SeqStartOrder(r) == ~InFlight /\ StartOrder(r)
SeqAdminConfirm(o) == ~InFlight /\ AdminConfirm(o)
SeqAdminCancel(o) == ~InFlight /\ AdminCancel(o)
SeqAdminCleanup == ~InFlight /\ AdminCleanup
SeqConfirmPayment(u, o) == ~InFlight /\ ConfirmPayment(u, o)

NextSeq ==
    \/ \E r \in Reqs : SeqStartOrder(r) \/ OrderStep(r)
    \/ \E o \in Reqs : SeqAdminConfirm(o) \/ SeqAdminCancel(o)
    \/ \E u \in Buyers, o \in Reqs : SeqConfirmPayment(u, o)
    \/ SeqAdminCleanup
    \/ Tick

SpecSeq == Init /\ [][NextSeq]_vars

(* ---------------- pending earnings: release and cancel ---------------- *)
\* The store after a wallet purchase of b2 (order 1) and an external-
\* settlement order of b1 confirmed by the admin (order 2), both at time 0 on
\* a listing of three units: two pending earnings, due in three days.
\* SpecSeq reaches this state.
TwoOrdersSettled ==
    /\ now = 0
    /\ stock = 1
    /\ items = <<[status |-> "reserved", reservedUntil |-> ReserveTicks],
                 [status |-> "sold", reservedUntil |-> NoTime],
                 [status |-> "sold", reservedUntil |-> NoTime]>>
    /\ orders = <<[status |-> "paid", buyerId |-> "b2", productItemId |-> 2,
                   quantity |-> 1, price |-> UnitPrice, paymentMethod |-> "wallet",
                   deliveredContent |-> {2}, createdAt |-> 0],
                  [status |-> "paid", buyerId |-> "b1", productItemId |-> 3,
                   quantity |-> 1, price |-> UnitPrice, paymentMethod |-> "qr",
                   deliveredContent |-> {3}, createdAt |-> 0]>>
    /\ balance = [u \in Users |-> IF u = "b1"
                                  THEN UnitPrice + referralCommission(UnitPrice, DefaultRate)
                                  ELSE 0]
    /\ ledger = SetToBag({
           [userId |-> "b1", type |-> "credit", amount |-> UnitPrice, relatedOrderId |-> NoOrder],
           [userId |-> "b2", type |-> "credit", amount |-> UnitPrice, relatedOrderId |-> NoOrder],
           [userId |-> "b2", type |-> "debit", amount |-> UnitPrice, relatedOrderId |-> NoOrder],
           [userId |-> "b1", type |-> "credit", amount |-> referralCommission(UnitPrice, DefaultRate),
            relatedOrderId |-> 1]})
    /\ earnings = <<[sellerId |-> Seller, orderId |-> 1, amount |-> sellerAmount(UnitPrice),
                     status |-> "pending", releaseAt |-> HoldTicks, releasedAt |-> NoTime],
                    [sellerId |-> Seller, orderId |-> 2, amount |-> sellerAmount(UnitPrice),
                     status |-> "pending", releaseAt |-> HoldTicks, releasedAt |-> NoTime]>>
    /\ referrals = [b \in Buyers |->
                      IF b = "b2"
                      THEN [referrerId |-> "b1", commissionRate |-> DefaultRate,
                            isActive |-> TRUE,
                            totalEarned |-> referralCommission(UnitPrice, DefaultRate)]
                      ELSE [referrerId |-> "none", commissionRate |-> DefaultRate,
                            isActive |-> FALSE, totalEarned |-> 0]]
    /\ codeStats = [u \in Users |-> IF u = "b1" THEN referralCommission(UnitPrice, DefaultRate)
                                    ELSE 0]
    /\ deposits = <<[userId |-> "b1", amount |-> UnitPrice, status |-> "approved"],
                    [userId |-> "b2", amount |-> UnitPrice, status |-> "approved"]>>
    /\ withdrawals = <<>>
    /\ disputes = {}
    /\ listed = TRUE
    /\ itemUid = [i \in ItemIds |-> i]
    /\ links = <<[referrerId |-> "b1", referredId |-> "b2"]>>
    /\ accounts = Users
    /\ codes = {"b1"}
    /\ productPrice = UnitPrice
    /\ category = "account"
    /\ req = <<[pc |-> "done", buyer |-> "b2", quantity |-> 1, method |-> "wallet",
                stockRead |-> 3, item |-> 1, balRead |-> UnitPrice, sel |-> {2},
                sold |-> {2}, commission |-> referralCommission(UnitPrice, DefaultRate),
                result |-> "created"],
               [pc |-> "done", buyer |-> "b1", quantity |-> 1, method |-> "qr",
                stockRead |-> 2, item |-> 3, balRead |-> 0, sel |-> {},
                sold |-> {}, commission |-> 0, result |-> "created"]>>
    /\ jobs = [j \in JobIds |-> IdleJob]
    /\ adminOps = 1
    /\ storeFails = 0

InitEarn == TwoOrdersSettled

EarningIds == DOMAIN earnings

\* storage.getReleasablePendingEarnings: pending rows with releaseAt <= now,
\* ordered by releaseAt
RECURSIVE sortByReleaseAt(_)
sortByReleaseAt(S) ==
    IF S = {} THEN <<>>
    ELSE LET e == CHOOSE x \in S :
                    \A y \in S : \/ earnings[x].releaseAt < earnings[y].releaseAt
                                  \/ (earnings[x].releaseAt = earnings[y].releaseAt /\ x <= y)
         IN  <<e>> \o sortByReleaseAt(S \ {e})

getReleasablePendingEarnings ==
    sortByReleaseAt({e \in EarningIds : /\ earnings[e].status = "pending"
                                         /\ earnings[e].releaseAt <= now})

\* UPDATE pending_earnings SET status = 'released', released_at = now WHERE id = :id
releasePendingEarning(es, id) ==
    [es EXCEPT ![id].status = "released", ![id].releasedAt = now]

\* UPDATE pending_earnings SET status = 'cancelled', released_at = now WHERE id = :id
cancelPendingEarning(es, id) ==
    [es EXCEPT ![id].status = "cancelled", ![id].releasedAt = now]

JobDone(j) == [jobs EXCEPT ![j].pc = "done"]
JobsIdle == \A j \in JobIds : jobs[j].pc \in {"idle", "done"}

\* a tick of the releasePendingEarnings timer: the select
StartSweep(j) ==
    /\ jobs[j].pc = "idle"
    /\ \A i \in JobIds : i < j => jobs[i].pc # "idle"
    /\ jobs' = [jobs EXCEPT ![j] = [@ EXCEPT !.kind = "sweep", !.pc = "next",
                                             !.list = getReleasablePendingEarnings]]
    /\ UNCHANGED <<now, catalogV, orders, moneyV, earnings, refV, deposits, withdrawals,
                   disputes, listed, regV, req, ctlV>>

\* the head of the sweep's loop and storage.releasePendingEarning(earning.id)
SweepRelease(j) ==
    /\ jobs[j].kind = "sweep" /\ jobs[j].pc = "next"
    /\ IF jobs[j].list = <<>>
       THEN /\ jobs' = JobDone(j)
            /\ UNCHANGED earnings
       ELSE /\ earnings' = releasePendingEarning(earnings, Head(jobs[j].list))
            /\ jobs' = [jobs EXCEPT ![j].id = Head(jobs[j].list),
                                    ![j].list = Tail(jobs[j].list),
                                    ![j].pc = "getSeller"]
    /\ UNCHANGED <<now, catalogV, orders, moneyV, refV, deposits, withdrawals,
                   disputes, listed, regV, req, ctlV>>

\* POST /api/admin/pending-earnings/:id/release: the lookup and status check
StartAdminRelease(j) ==
    /\ jobs[j].pc = "idle"
    /\ \A i \in JobIds : i < j => jobs[i].pc # "idle"
    /\ \E e \in EarningIds :
         jobs' = [jobs EXCEPT ![j] = [@ EXCEPT !.kind = "release", !.id = e,
                                              !.pc = IF earnings[e].status = "pending"
                                                     THEN "release" ELSE "done"]]
    /\ UNCHANGED <<now, catalogV, orders, moneyV, earnings, refV, deposits, withdrawals,
                   disputes, listed, regV, req, ctlV>>

\* the admin call's storage.releasePendingEarning(req.params.id)
AdminRelease(j) ==
    /\ jobs[j].kind = "release" /\ jobs[j].pc = "release"
    /\ earnings' = releasePendingEarning(earnings, jobs[j].id)
    /\ jobs' = [jobs EXCEPT ![j].pc = "getSeller"]
    /\ UNCHANGED <<now, catalogV, orders, moneyV, refV, deposits, withdrawals,
                   disputes, listed, regV, req, ctlV>>

\* storage.getUser(released.sellerId), in the sweep and in the admin call
GetSeller(j) ==
    /\ jobs[j].pc = "getSeller"
    /\ jobs' = [jobs EXCEPT ![j].balRead = balance[earnings[jobs[j].id].sellerId],
                            ![j].pc = "credit"]
    /\ UNCHANGED <<now, catalogV, orders, moneyV, earnings, refV, deposits, withdrawals,
                   disputes, listed, regV, req, ctlV>>

\* storage.updateUserBalance(released.sellerId, seller.walletBalance + released.amount)
CreditSeller(j) ==
    /\ jobs[j].pc = "credit"
    /\ balance' = updateUserBalance(balance, earnings[jobs[j].id].sellerId,
                                    jobs[j].balRead + earnings[jobs[j].id].amount)
    /\ jobs' = [jobs EXCEPT ![j].pc = "entry"]
    /\ UNCHANGED <<now, catalogV, orders, ledger, earnings, refV, deposits, withdrawals,
                   disputes, listed, regV, req, ctlV>>

\* storage.createWalletTransaction({type: "credit", relatedOrderId: released.orderId})
CreditEntry(j) ==
    /\ jobs[j].pc = "entry"
    /\ ledger' = createWalletTransaction(ledger, earnings[jobs[j].id].sellerId, "credit",
                                         earnings[jobs[j].id].amount,
                                         earnings[jobs[j].id].orderId)
    /\ jobs' = IF jobs[j].kind = "sweep" THEN [jobs EXCEPT ![j].pc = "next"] ELSE JobDone(j)
    /\ UNCHANGED <<now, catalogV, orders, balance, earnings, refV, deposits, withdrawals,
                   disputes, listed, regV, req, ctlV>>

\* POST /api/admin/pending-earnings/:id/cancel: the lookup and status check
StartAdminCancel(j) ==
    /\ jobs[j].pc = "idle"
    /\ \A i \in JobIds : i < j => jobs[i].pc # "idle"
    /\ \E e \in EarningIds :
         jobs' = [jobs EXCEPT ![j] = [@ EXCEPT !.kind = "cancel", !.id = e,
                                              !.pc = IF earnings[e].status = "pending"
                                                     THEN "cancel" ELSE "done"]]
    /\ UNCHANGED <<now, catalogV, orders, moneyV, earnings, refV, deposits, withdrawals,
                   disputes, listed, regV, req, ctlV>>

\* the admin call's storage.cancelPendingEarning(req.params.id)
AdminCancelEarning(j) ==
    /\ jobs[j].kind = "cancel" /\ jobs[j].pc = "cancel"
    /\ earnings' = cancelPendingEarning(earnings, jobs[j].id)
    /\ jobs' = JobDone(j)
    /\ UNCHANGED <<now, catalogV, orders, moneyV, refV, deposits, withdrawals,
                   disputes, listed, regV, req, ctlV>>

\* a day passes
NextDay ==
    /\ now < MaxDays * DayTicks
    /\ now' = now + DayTicks
    /\ UNCHANGED <<catalogV, orders, moneyV, earnings, refV, miscV, req, ctlV>>

\* Timer ticks and admin calls on the pending earnings of two settled orders.
NextEarn ==
    \/ \E j \in JobIds :
         \/ StartSweep(j) \/ SweepRelease(j) \/ AdminRelease(j)
         \/ GetSeller(j) \/ CreditSeller(j) \/ CreditEntry(j) \/ AdminCancelEarning(j)
         \/ StartAdminRelease(j) \/ StartAdminCancel(j)
    \/ NextDay

SpecEarn == InitEarn /\ [][NextEarn]_vars

(* ------------------- the other routes that move money ----------------- *)
\* POST /api/deposits
CreateDeposit(u) ==
    /\ Len(deposits) < MaxDeposits
    /\ deposits' = Append(deposits, [userId |-> u, amount |-> UnitPrice, status |-> "pending"])
    /\ UNCHANGED <<now, catalogV, orders, moneyV, earnings, refV, withdrawals, disputes,
                   listed, regV, jobs, req>>

\* POST /api/admin/deposits/:id/approve
DepositApprove(d) ==
    /\ d \in DOMAIN deposits
    /\ deposits' = [deposits EXCEPT ![d].status = "approved"]
    /\ balance' = updateUserBalance(balance, deposits[d].userId,
                                    balance[deposits[d].userId] + deposits[d].amount)
    /\ ledger' = createWalletTransaction(ledger, deposits[d].userId, "credit",
                                         deposits[d].amount, NoOrder)
    /\ UNCHANGED <<now, catalogV, orders, earnings, refV, withdrawals, disputes, listed, regV,
                   jobs, req>>

\* POST /api/seller/withdrawals
RequestWithdrawal(amount) ==
    /\ balance[Seller] >= amount
    /\ withdrawals' = Append(withdrawals,
                             [sellerId |-> Seller, amount |-> amount, status |-> "pending"])
    /\ UNCHANGED <<now, catalogV, orders, moneyV, earnings, refV, deposits, disputes,
                   listed, regV, jobs, req>>

\* POST /api/admin/withdrawals/:id/approve
ApproveWithdrawal(w) ==
    /\ w \in DOMAIN withdrawals
    /\ withdrawals' = [withdrawals EXCEPT ![w].status = "approved"]
    /\ UNCHANGED <<now, catalogV, orders, moneyV, earnings, refV, deposits, disputes,
                   listed, regV, jobs, req>>

\* POST /api/admin/withdrawals/:id/complete
CompleteWithdrawal(w) ==
    /\ w \in DOMAIN withdrawals
    /\ withdrawals[w].status = "approved"
    /\ balance' = updateUserBalance(balance, withdrawals[w].sellerId,
                                    balance[withdrawals[w].sellerId] - withdrawals[w].amount)
    /\ ledger' = createWalletTransaction(ledger, withdrawals[w].sellerId, "debit",
                                         withdrawals[w].amount, NoOrder)
    /\ withdrawals' = [withdrawals EXCEPT ![w].status = "completed"]
    /\ UNCHANGED <<now, catalogV, orders, earnings, refV, deposits, disputes, listed, regV,
                   jobs, req>>

\* POST /api/admin/sellers/:id/bonus
AdminBonus(u, amount) ==
    /\ balance' = updateUserBalance(balance, u, balance[u] + amount)
    /\ ledger' = createWalletTransaction(ledger, u, "credit", amount, NoOrder)
    /\ UNCHANGED <<now, catalogV, orders, earnings, refV, miscV, req>>

\* PATCH /api/admin/users/:id with walletBalance in the body
AdminPatchUser(u, walletBalance) ==
    /\ balance' = [balance EXCEPT ![u] = walletBalance]
    /\ UNCHANGED <<now, catalogV, orders, ledger, earnings, refV, miscV, req>>

\* POST /api/disputes
CreateDispute(o) ==
    /\ o \in OrderIds
    /\ o \notin disputes
    /\ disputes' = disputes \cup {o}
    /\ UNCHANGED <<now, catalogV, orders, moneyV, earnings, refV, deposits, withdrawals,
                   listed, regV, jobs, req>>

\* PATCH /api/admin/disputes/:id with status resolved_buyer and a refundAmount
DisputeRefund(o, refundAmount) ==
    /\ o \in disputes
    /\ balance' = updateUserBalance(balance, orders[o].buyerId,
                                    balance[orders[o].buyerId] + refundAmount)
    /\ ledger' = createWalletTransaction(ledger, orders[o].buyerId, "credit",
                                         refundAmount, NoOrder)
    /\ UNCHANGED <<now, catalogV, orders, earnings, refV, miscV, req>>

\* POST /api/admin/pending-earnings/:id/release, the whole call
AdminReleaseCall(e) ==
    /\ e \in EarningIds
    /\ earnings[e].status = "pending"
    /\ earnings' = releasePendingEarning(earnings, e)
    /\ balance' = updateUserBalance(balance, earnings[e].sellerId,
                                    balance[earnings[e].sellerId] + earnings[e].amount)
    /\ ledger' = createWalletTransaction(ledger, earnings[e].sellerId, "credit",
                                         earnings[e].amount, earnings[e].orderId)
    /\ UNCHANGED <<now, catalogV, orders, refV, miscV, req>>

\* wallet_transactions left after DELETE ... WHERE related_order_id = order.id
\* has run for every order of the product
deleteOrderTransactions(l) ==
    LET keep == {e \in BagToSet(l) : e.relatedOrderId \notin OrderIds}
    IN  [e \in keep |-> l[e]]

\* DELETE /api/seller/products/:id: storage.deleteProductWithRelations. The
\* delete of the orders is refused by the store while a pending_earnings or
\* disputes row references one of them; what ran before it stays.
PurgeProduct ==
    /\ listed
    /\ ledger' = deleteOrderTransactions(ledger)
    /\ IF \E o \in OrderIds : o \in disputes \/ \E e \in EarningIds : earnings[e].orderId = o
       THEN UNCHANGED <<catalogV, orders, listed, itemUid>>
       ELSE /\ orders' = [o \in Reqs |-> NoOrderRow]
            /\ items' = [i \in ItemIds |-> [status |-> "absent", reservedUntil |-> NoTime]]
            /\ itemUid' = [i \in ItemIds |-> NoUid]
            /\ listed' = FALSE
            /\ UNCHANGED stock
    /\ UNCHANGED <<now, balance, earnings, refV, deposits, withdrawals, disputes, userV, productV,
                   jobs, req>>

\* One more call to a route other than POST /api/orders, between two orders.
LedgerCall ==
    /\ ~InFlight
    /\ adminOps < MaxLedgerOps
    /\ adminOps' = adminOps + 1
    /\ UNCHANGED storeFails

LedCreateDeposit(u) ==
    LedgerCall /\ CreateDeposit(u)

LedDepositApprove(d) ==
    LedgerCall /\ DepositApprove(d)

LedRequestWithdrawal(amount) ==
    LedgerCall /\ Len(withdrawals) < MaxWithdrawals /\ RequestWithdrawal(amount)

LedApproveWithdrawal(w) ==
    LedgerCall /\ ApproveWithdrawal(w)

LedCompleteWithdrawal(w) ==
    LedgerCall /\ CompleteWithdrawal(w)

LedAdminBonus(u, amount) ==
    LedgerCall /\ AdminBonus(u, amount)

LedAdminPatchUser(u, walletBalance) ==
    LedgerCall /\ AdminPatchUser(u, walletBalance)

LedCreateDispute(o) ==
    LedgerCall /\ CreateDispute(o)

LedDisputeRefund(o, refundAmount) ==
    LedgerCall /\ DisputeRefund(o, refundAmount)

LedAdminReleaseCall(e) ==
    LedgerCall /\ AdminReleaseCall(e)

LedPurgeProduct ==
    LedgerCall /\ PurgeProduct

\* A full listing and funded buyers.
InitLedger ==
    /\ Init
    /\ stock = NumItems
    /\ \A b \in Buyers : balance[b] = MaxQty * UnitPrice

\* The order requests placed while the other wallet routes are called.
LedgerReqs == {Min(Reqs)}

\* One call at a time, over all the routes that touch a wallet.
NextLedger ==
    \/ \E r \in LedgerReqs : SeqStartOrder(r) \/ OrderStep(r)
    \/ \E u \in Buyers : LedCreateDeposit(u)
    \/ \E d \in 1 .. MaxDeposits : LedDepositApprove(d)
    \/ LedRequestWithdrawal(sellerAmount(UnitPrice))
    \/ \E w \in 1 .. MaxWithdrawals : LedApproveWithdrawal(w) \/ LedCompleteWithdrawal(w)
    \/ \E u \in Users : LedAdminBonus(u, UnitPrice) \/ LedAdminPatchUser(u, UnitPrice)
    \/ \E o \in LedgerReqs : LedCreateDispute(o) \/ LedDisputeRefund(o, UnitPrice)
    \/ \E e \in 1 .. NumReq : LedAdminReleaseCall(e)
    \/ LedPurgeProduct

SpecLedger == InitLedger /\ [][NextLedger]_vars

(* ------------- the cleanup against confirmations in flight ------------ *)
\* The store after two external-settlement orders of one unit each, placed
\* at time 0 by b1 and b2 on a full listing. SpecSeq reaches this state.
TwoQrOrdersPending ==
    /\ now = 0
    /\ stock = NumItems
    /\ items = [i \in ItemIds |->
                  IF i <= 2 THEN [status |-> "reserved", reservedUntil |-> ReserveTicks]
                  ELSE [status |-> "available", reservedUntil |-> NoTime]]
    /\ orders = [r \in Reqs |->
                   IF r <= 2
                   THEN [status |-> "pending_payment",
                         buyerId |-> IF r = 1 THEN "b1" ELSE "b2",
                         productItemId |-> r, quantity |-> 1, price |-> UnitPrice,
                         paymentMethod |-> "qr", deliveredContent |-> {}, createdAt |-> 0]
                   ELSE NoOrderRow]
    /\ balance = [u \in Users |-> IF u \in Buyers THEN UnitPrice ELSE 0]
    /\ ledger = SetToBag({[userId |-> b, type |-> "credit", amount |-> UnitPrice,
                           relatedOrderId |-> NoOrder] : b \in Buyers})
    /\ earnings = <<>>
    /\ referrals = [b \in Buyers |->
                      IF b = "b2"
                      THEN [referrerId |-> "b1", commissionRate |-> DefaultRate,
                            isActive |-> TRUE, totalEarned |-> 0]
                      ELSE [referrerId |-> "none", commissionRate |-> DefaultRate,
                            isActive |-> FALSE, totalEarned |-> 0]]
    /\ codeStats = [u \in Users |-> 0]
    /\ deposits = <<[userId |-> "b1", amount |-> UnitPrice, status |-> "approved"],
                    [userId |-> "b2", amount |-> UnitPrice, status |-> "approved"]>>
    /\ withdrawals = <<>>
    /\ disputes = {}
    /\ listed = TRUE
    /\ itemUid = [i \in ItemIds |-> i]
    /\ links = <<[referrerId |-> "b1", referredId |-> "b2"]>>
    /\ accounts = Users
    /\ codes = {"b1"}
    /\ productPrice = UnitPrice
    /\ category = "account"
    /\ req = [r \in Reqs |->
                IF r <= 2
                THEN [IdleReq EXCEPT !.pc = "done", !.buyer = IF r = 1 THEN "b1" ELSE "b2",
                                     !.quantity = 1, !.method = "qr",
                                     !.stockRead = NumItems, !.item = r,
                                     !.result = "created"]
                ELSE IdleReq]
    /\ jobs = [j \in JobIds |-> IdleJob]
    /\ adminOps = 0
    /\ storeFails = 0

\* the orders of a set in some order: a select with no ORDER BY
Listings(S) ==
    {q \in [1 .. Cardinality(S) -> S] : \A a, c \in DOMAIN q : a # c => q[a] # q[c]}

\* POST /api/admin/cleanup: storage.cleanupExpiredReservations()
StartCleanup(j) ==
    /\ jobs[j].pc = "idle"
    /\ \A i \in JobIds : i < j => jobs[i].pc # "idle"
    /\ items' = resetExpired(items)
    /\ jobs' = [jobs EXCEPT ![j] = [@ EXCEPT !.kind = "cleanup", !.pc = "select"]]
    /\ UNCHANGED <<now, stock, orders, moneyV, earnings, refV, deposits, withdrawals,
                   disputes, listed, regV, req, ctlV>>

\* cancelExpiredPendingOrders: the select of the expired pending_payment orders
CleanupSelect(j) ==
    /\ jobs[j].kind = "cleanup" /\ jobs[j].pc = "select"
    /\ \E l \in Listings(StaleOrderIds) :
          jobs' = [jobs EXCEPT ![j].list = l,
                               ![j].pc = IF l = <<>> THEN "done" ELSE "item"]
    /\ UNCHANGED <<now, catalogV, orders, moneyV, earnings, refV, deposits, withdrawals,
                   disputes, listed, regV, req, ctlV>>

\* cancelExpiredPendingOrders: the loop's release of the order's unit
CleanupItem(j) ==
    /\ jobs[j].kind = "cleanup" /\ jobs[j].pc = "item"
    /\ items' = releaseItemsOf(items, {Head(jobs[j].list)})
    /\ jobs' = [jobs EXCEPT ![j].pc = "order"]
    /\ UNCHANGED <<now, stock, orders, moneyV, earnings, refV, deposits, withdrawals,
                   disputes, listed, regV, req, ctlV>>

\* cancelExpiredPendingOrders: the loop's UPDATE orders SET status = 'cancelled'
CleanupOrder(j) ==
    /\ jobs[j].kind = "cleanup" /\ jobs[j].pc = "order"
    /\ orders' = [orders EXCEPT ![Head(jobs[j].list)].status = "cancelled"]
    /\ jobs' = [jobs EXCEPT ![j].list = Tail(@),
                            ![j].pc = IF Tail(jobs[j].list) = <<>> THEN "done" ELSE "item"]
    /\ UNCHANGED <<now, catalogV, moneyV, earnings, refV, deposits, withdrawals,
                   disputes, listed, regV, req, ctlV>>

\* what POST /api/orders/:id/confirm-payment answers to user u for order o
\* after storage.getOrder
confirmPaymentCheck(u, o) ==
    IF orders[o].status = "none" THEN "not_found"
    ELSE IF orders[o].buyerId # u THEN "forbidden"
    ELSE IF orders[o].status # "pending_payment" THEN "not_pending"
    ELSE "ok"

\* POST /api/orders/:id/confirm-payment: storage.getOrder and the tests
StartConfirmPayment(j) ==
    /\ jobs[j].pc = "idle"
    /\ \A i \in JobIds : i < j => jobs[i].pc # "idle"
    /\ \E u \in Buyers, o \in Reqs :
          jobs' = [jobs EXCEPT ![j] =
                     [@ EXCEPT !.kind = "confirmPayment", !.id = o, !.caller = u,
                               !.result = confirmPaymentCheck(u, o),
                               !.pc = IF confirmPaymentCheck(u, o) = "ok"
                                      THEN "update" ELSE "done"]]
    /\ UNCHANGED <<now, catalogV, orders, moneyV, earnings, refV, deposits, withdrawals,
                   disputes, listed, regV, req, ctlV>>

\* POST /api/orders/:id/confirm-payment: updateOrderStatus(id, "pending_confirmation");
\* the call that follows writes payment_confirmed_at, a column no handler
\* reads and the order rows here do not carry
ConfirmPaymentUpdate(j) ==
    /\ jobs[j].kind = "confirmPayment" /\ jobs[j].pc = "update"
    /\ orders' = [orders EXCEPT ![jobs[j].id].status = "pending_confirmation"]
    /\ jobs' = JobDone(j)
    /\ UNCHANGED <<now, catalogV, moneyV, earnings, refV, deposits, withdrawals,
                   disputes, listed, regV, req, ctlV>>

\* the steps a cleanup call that has started still has to take
CleanupStep(j) == CleanupSelect(j) \/ CleanupItem(j) \/ CleanupOrder(j)

\* Cleanup calls, buyer confirmations and admin confirmations interleaved
\* while the clock runs.
NextSweep ==
    \/ \E j \in JobIds : StartCleanup(j) \/ CleanupSelect(j) \/ CleanupItem(j) \/ CleanupOrder(j)
    \/ \E j \in JobIds : StartConfirmPayment(j) \/ ConfirmPaymentUpdate(j)
    \/ \E o \in Reqs : AdminConfirm(o)
    \/ Tick

\* Time passes and a call that has started runs to its end; a cleanup
\* starts only when an admin calls the route.
SpecSweep ==
    /\ TwoQrOrdersPending
    /\ [][NextSweep]_vars
    /\ WF_vars(Tick)
    /\ \A j \in JobIds : WF_vars(CleanupStep(j)) /\ WF_vars(ConfirmPaymentUpdate(j))

(* ----------------------- restock and item deletion --------------------- *)
\* storage.checkDuplicateUid: some product_items row carries the fingerprint
checkDuplicateUid(uid) ==
    \E i \in ItemIds : items[i].status # "absent" /\ itemUid[i] = uid

\* An account line "uid|rest": its first field and what follows it
Lines == [uid : {NoUid} \cup Uids, rest : 1 .. 2]

\* hashUid: the digest of the line's first field, "" when that field is empty
hashUid(line) == line.uid

\* the duplicate check of an upload: each line with a fingerprint is looked
\* up among the rows of the store
hasDuplicate(S, f) ==
    \E i \in S : hashUid(f[i]) # NoUid /\ checkDuplicateUid(hashUid(f[i]))

\* storage.createProductItems: the rows S are inserted as available units
createProductItems(its, S) ==
    [i \in ItemIds |->
        IF i \in S THEN [status |-> "available", reservedUntil |-> NoTime] ELSE its[i]]

\* PATCH /api/seller/products/:id/restock with one account line per row of
\* S, f[i] being the line stored in row i; every line is tested against the
\* rows of the store, then all are inserted
RestockWith(S, f) ==
    /\ adminOps < MaxAdminOps
    /\ listed /\ accountProduct
    /\ S # {} /\ \A i \in S : items[i].status = "absent"
    /\ IF hasDuplicate(S, f)
       THEN UNCHANGED <<stock, items, itemUid>>
       ELSE /\ items' = createProductItems(items, S)
            /\ itemUid' = [i \in ItemIds |-> IF i \in S THEN hashUid(f[i]) ELSE itemUid[i]]
            /\ stock' = stock + Cardinality(S)
    /\ adminOps' = adminOps + 1
    /\ UNCHANGED <<now, orders, moneyV, earnings, refV, deposits, withdrawals, disputes,
                   listed, userV, productV, jobs, req, storeFails>>

\* a restock with account lines that are all new
Restock(S) == RestockWith(S, [i \in S |-> [uid |-> i, rest |-> 1]])

\* DELETE /api/seller/products/:productId/items/:itemId; the store refuses
\* the delete of a row an order references, and the stock is then left alone
DeleteItem(i) ==
    /\ adminOps < MaxAdminOps
    /\ listed
    /\ items[i].status = "available"
    /\ IF \E o \in OrderIds : orders[o].productItemId = i
       THEN UNCHANGED <<stock, items, itemUid>>
       ELSE /\ items' = [items EXCEPT ![i] = [status |-> "absent", reservedUntil |-> NoTime]]
            /\ itemUid' = [itemUid EXCEPT ![i] = NoUid]
            /\ stock' = IF stock - 1 > 0 THEN stock - 1 ELSE 0
    /\ adminOps' = adminOps + 1
    /\ UNCHANGED <<now, orders, moneyV, earnings, refV, deposits, withdrawals, disputes,
                   listed, userV, productV, jobs, req, storeFails>>

SeqRestock(S) == ~InFlight /\ Restock(S)
SeqDeleteItem(i) == ~InFlight /\ DeleteItem(i)

\* Orders, admin confirmations, restocks and item deletions, one call at a
\* time.
NextStock ==
    \/ \E r \in Reqs : SeqStartOrder(r) \/ OrderStep(r)
    \/ \E o \in Reqs : SeqAdminConfirm(o)
    \/ \E S \in SUBSET ItemIds : SeqRestock(S)
    \/ \E i \in ItemIds : SeqDeleteItem(i)

SpecStock == Init /\ [][NextStock]_vars

(* ------------------------- inventory uploads -------------------------- *)
\* One more inventory call of the seller, none being in flight.
UploadCall ==
    /\ ~InFlight
    /\ adminOps < MaxUploadOps
    /\ adminOps' = adminOps + 1
    /\ UNCHANGED storeFails

\* the restock route with arbitrary account lines
UpRestock(S, f) == ~InFlight /\ RestockWith(S, f)

\* POST /api/seller/products for an account product: the lines are tested
\* against the rows of the store, the products row is created with the
\* number of lines as its stock, then the units are inserted
CreateProduct(S, f) ==
    /\ UploadCall
    /\ ~listed
    /\ S # {} /\ \A i \in S : items[i].status = "absent"
    /\ IF hasDuplicate(S, f)
       THEN UNCHANGED <<stock, items, itemUid, listed>>
       ELSE /\ listed' = TRUE
            /\ stock' = Cardinality(S)
            /\ items' = createProductItems(items, S)
            /\ itemUid' = [i \in ItemIds |-> IF i \in S THEN hashUid(f[i]) ELSE itemUid[i]]
    /\ UNCHANGED <<now, orders, moneyV, earnings, refV, deposits, withdrawals, disputes,
                   userV, productV, jobs, req>>

\* PATCH /api/seller/products/:productId/items/:itemId with the new content
\* line: only a unit in stock is edited, and a new fingerprint is looked up
\* among the rows of the store first
UpdateItemContent(i, line) ==
    /\ UploadCall
    /\ listed
    /\ items[i].status = "available"
    /\ IF /\ hashUid(line) # NoUid
          /\ itemUid[i] # hashUid(line)
          /\ checkDuplicateUid(hashUid(line))
       THEN UNCHANGED itemUid
       ELSE itemUid' = [itemUid EXCEPT ![i] = hashUid(line)]
    /\ UNCHANGED <<now, catalogV, orders, moneyV, earnings, refV, deposits, withdrawals,
                   disputes, listed, userV, productV, jobs, req>>

UpPurgeProduct == UploadCall /\ PurgeProduct

\* The seller creates, restocks, edits and deletes inventory, one call at a
\* time.
NextUpload ==
    \/ \E S \in SUBSET ItemIds : \E f \in [S -> Lines] : UpRestock(S, f)
    \/ \E S \in SUBSET ItemIds : \E f \in [S -> Lines] : CreateProduct(S, f)
    \/ \E i \in ItemIds : \E line \in Lines : UpdateItemContent(i, line)
    \/ \E i \in ItemIds : SeqDeleteItem(i)
    \/ UpPurgeProduct

SpecUpload == Init /\ [][NextUpload]_vars

(* ---------------- one order from reservation to payout ---------------- *)
\* POST /api/admin/pending-earnings/:id/cancel, the whole call
AdminCancelEarningCall(e) ==
    /\ e \in EarningIds
    /\ earnings[e].status = "pending"
    /\ earnings' = cancelPendingEarning(earnings, e)
    /\ UNCHANGED <<now, catalogV, orders, moneyV, refV, miscV, req>>

HoldAdminCancelEarning(e) == LedgerCall /\ AdminCancelEarningCall(e)

\* One order request, the admin's confirmation or cancellation of its order,
\* the cleanup, and the admin's release or cancellation of its pending
\* earning, one call at a time, with the half-hours passing.
NextHold ==
    \/ \E r \in LedgerReqs : SeqStartOrder(r) \/ OrderStep(r)
    \/ \E o \in LedgerReqs : SeqAdminConfirm(o) \/ SeqAdminCancel(o)
    \/ SeqAdminCleanup
    \/ \E e \in 1 .. NumReq : LedAdminReleaseCall(e) \/ HoldAdminCancelEarning(e)
    \/ Tick

SpecHold == Init /\ [][NextHold]_vars

(* ------------------------------ deposits ------------------------------ *)
\* POST /api/admin/deposits/:id/reject
DepositReject(d) ==
    /\ d \in DOMAIN deposits
    /\ deposits' = [deposits EXCEPT ![d].status = "rejected"]
    /\ UNCHANGED <<now, catalogV, orders, moneyV, earnings, refV, withdrawals, disputes,
                   listed, regV, jobs, req>>

LedDepositReject(d) ==
    LedgerCall /\ DepositReject(d)

\* Deposit requests and the admin's approvals and rejections, one call at a
\* time.
NextDeposit ==
    \/ \E u \in Buyers : LedCreateDeposit(u)
    \/ \E d \in 1 .. MaxDeposits : LedDepositApprove(d) \/ LedDepositReject(d)

SpecDeposit == Init /\ [][NextDeposit]_vars

(* ------------------------ edits of the listing ------------------------ *)
\* the prices and categories an edit can carry
PriceInputs == {UnitPrice, 2 * UnitPrice}
Categories == {"account", "software"}

\* PATCH /api/admin/products/:id with a price and a category:
\* storage.updateProductAdmin
AdminPatchProduct(p, c) ==
    /\ adminOps < MaxAdminOps
    /\ listed
    /\ productPrice' = p
    /\ category' = c
    /\ adminOps' = adminOps + 1
    /\ UNCHANGED <<now, catalogV, orders, moneyV, earnings, refV, deposits, withdrawals,
                   disputes, listed, itemUid, userV, jobs, req, storeFails>>

SeqAdminPatchProduct(p, c) == ~InFlight /\ AdminPatchProduct(p, c)

\* Orders, admin confirmations and edits of the listing, one call at a time.
NextListing ==
    \/ \E r \in Reqs : SeqStartOrder(r) \/ OrderStep(r)
    \/ \E o \in Reqs : SeqAdminConfirm(o)
    \/ \E p \in PriceInputs, c \in Categories : SeqAdminPatchProduct(p, c)

SpecListing == Init /\ [][NextListing]_vars

(* --------------------------- referral links --------------------------- *)
\* The store with the full listing and funded wallets, before the second
\* buyer has registered and before any referral code or link exists.
InitReferral ==
    /\ now = 0
    /\ stock = NumItems
    /\ items = [i \in ItemIds |-> [status |-> "available", reservedUntil |-> NoTime]]
    /\ orders = [r \in Reqs |-> NoOrderRow]
    /\ balance = [u \in Users |-> IF u = "b1" THEN UnitPrice ELSE 0]
    /\ ledger = SetToBag({[userId |-> "b1", type |-> "credit", amount |-> UnitPrice,
                           relatedOrderId |-> NoOrder]})
    /\ deposits = <<[userId |-> "b1", amount |-> UnitPrice, status |-> "approved"]>>
    /\ earnings = <<>>
    /\ referrals = [b \in Buyers |->
                      [referrerId |-> "none", commissionRate |-> DefaultRate,
                       isActive |-> FALSE, totalEarned |-> 0]]
    /\ codeStats = [u \in Users |-> 0]
    /\ withdrawals = <<>>
    /\ disputes = {}
    /\ listed = TRUE
    /\ itemUid = [i \in ItemIds |-> i]
    /\ links = <<>>
    /\ accounts = {"b1", Seller}
    /\ codes = {}
    /\ productPrice = UnitPrice
    /\ category = "account"
    /\ jobs = [j \in JobIds |-> IdleJob]
    /\ req = [r \in Reqs |-> IdleReq]
    /\ adminOps = 0
    /\ storeFails = 0

\* the codes a request can carry: a user's code, or a string that is no code
CodeInputs == Users \cup {"none"}

\* storage.getReferralByCode: the owner of the code, "none" without a row
getReferralByCode(code) == IF code \in codes THEN code ELSE "none"

\* storage.getReferralByReferredId after one more referrals row: the row
\* the lookup returned before, else the new one with the column defaults
referralAfter(ref, referrer, referred) ==
    IF referred \in Buyers /\ ref[referred].referrerId = "none"
    THEN [ref EXCEPT ![referred] = [referrerId |-> referrer, commissionRate |-> DefaultRate,
                                    isActive |-> TRUE, totalEarned |-> 0]]
    ELSE ref

\* storage.createReferral: a plain insert into referrals
createReferral(lnk, referrer, referred) ==
    Append(lnk, [referrerId |-> referrer, referredId |-> referred])

\* GET /api/referral/code: the caller's code, created at the first call
GetReferralCode(u) ==
    /\ u \in accounts
    /\ codes' = codes \cup {u}
    /\ UNCHANGED <<now, catalogV, orders, moneyV, earnings, refV, deposits, withdrawals,
                   disputes, listed, itemUid, links, accounts, productV, jobs, req,
                   ctlV>>

\* POST /api/auth/register of a new user u with the referral code `code`
Register(u, code) ==
    /\ u \notin accounts
    /\ Len(links) < MaxLinks
    /\ accounts' = accounts \cup {u}
    /\ LET referrerCode == getReferralByCode(code)
       IN  IF referrerCode # "none" /\ referrerCode # u
           THEN /\ links' = createReferral(links, referrerCode, u)
                /\ referrals' = referralAfter(referrals, referrerCode, u)
           ELSE UNCHANGED <<links, referrals>>
    /\ UNCHANGED <<now, catalogV, orders, moneyV, earnings, codeStats, deposits, withdrawals,
                   disputes, listed, itemUid, codes, productV, jobs, req, ctlV>>

\* POST /api/referral/apply by the signed-in user u with the code `code`
ApplyCode(u, code) ==
    /\ u \in accounts
    /\ Len(links) < MaxLinks
    /\ LET referralCode == getReferralByCode(code)
       IN  IF referralCode = "none" \/ referralCode = u
           THEN UNCHANGED <<links, referrals>>
           ELSE /\ links' = createReferral(links, referralCode, u)
                /\ referrals' = referralAfter(referrals, referralCode, u)
    /\ UNCHANGED <<now, catalogV, orders, moneyV, earnings, codeStats, deposits, withdrawals,
                   disputes, listed, itemUid, accounts, codes, productV, jobs, req,
                   ctlV>>

\* Users register, obtain their codes and apply the codes of others.
NextReferral ==
    \/ \E u \in Users : GetReferralCode(u)
    \/ \E u \in Users, code \in CodeInputs : Register(u, code)
    \/ \E u \in Users, code \in CodeInputs : ApplyCode(u, code)

SpecReferral == InitReferral /\ [][NextReferral]_vars

(* ------------------- sweeps with failing store calls ------------------- *)
\* A store call of the sweep's loop body throws: releasePendingEarning,
\* getUser, updateUserBalance or createWalletTransaction. The inner catch
\* logs it and the loop goes on with the next record.
SweepStepFails(j) ==
    /\ jobs[j].kind = "sweep"
    /\ \/ jobs[j].pc = "next" /\ jobs[j].list # <<>>
       \/ jobs[j].pc \in {"getSeller", "credit", "entry"}
    /\ storeFails < MaxStoreFail
    /\ storeFails' = storeFails + 1
    /\ jobs' = [jobs EXCEPT ![j].pc = "next",
                            ![j].list = IF jobs[j].pc = "next" THEN Tail(@) ELSE @]
    /\ UNCHANGED <<now, catalogV, orders, moneyV, earnings, refV, deposits, withdrawals,
                   disputes, listed, regV, req, adminOps>>

\* a tick of the timer once the sweep of the tick before has ended
SeqStartSweep(j) == JobsIdle /\ StartSweep(j)

\* The timer's sweeps one after the other, a store call failing now and then.
NextRelease ==
    \/ \E j \in JobIds :
         \/ SeqStartSweep(j) \/ SweepRelease(j) \/ GetSeller(j)
         \/ CreditSeller(j) \/ CreditEntry(j) \/ SweepStepFails(j)
    \/ NextDay

SpecRelease == InitEarn /\ [][NextRelease]_vars

(* ---------------------- the periodic release task --------------------- *)
\* the job that stands for the runs of the setInterval timer
TimerJob == Min(JobIds)

\* setInterval(releasePendingEarnings, 5 min) fires once the last run is over
TimerFires ==
    /\ jobs[TimerJob].pc \in {"idle", "done"}
    /\ jobs' = [jobs EXCEPT ![TimerJob] =
                   [IdleJob EXCEPT !.kind = "sweep", !.pc = "next",
                                   !.list = getReleasablePendingEarnings]]
    /\ UNCHANGED <<now, catalogV, orders, moneyV, earnings, refV, deposits, withdrawals,
                   disputes, listed, regV, req, ctlV>>

\* one statement of the run in progress
TimerStep ==
    \/ SweepRelease(TimerJob) \/ GetSeller(TimerJob)
    \/ CreditSeller(TimerJob) \/ CreditEntry(TimerJob)

\* The timer's runs one after the other for ever, the days passing, the
\* admin cancelling earnings, and a store call of a run failing.
NextTimer ==
    \/ TimerFires
    \/ TimerStep
    \/ SweepStepFails(TimerJob)
    \/ \E e \in 1 .. NumReq : HoldAdminCancelEarning(e)
    \/ NextDay

\* the timer keeps firing, a run in progress keeps going, the days pass
SpecTimer ==
    /\ InitEarn
    /\ [][NextTimer]_vars
    /\ WF_vars(TimerFires) /\ WF_vars(TimerStep) /\ WF_vars(NextDay)

(* ------------------------- seller withdrawals -------------------------- *)
\* One more call to a withdrawal route or to the admin release.
PayoutCall ==
    /\ adminOps < MaxPayoutOps
    /\ adminOps' = adminOps + 1
    /\ UNCHANGED storeFails

PayAdminReleaseCall(e) ==
    PayoutCall /\ AdminReleaseCall(e)

PayRequestWithdrawal(amount) ==
    PayoutCall /\ Len(withdrawals) < MaxPayouts /\ RequestWithdrawal(amount)

PayApproveWithdrawal(w) ==
    PayoutCall /\ ApproveWithdrawal(w)

PayCompleteWithdrawal(w) ==
    PayoutCall /\ CompleteWithdrawal(w)

\* The seller of two settled orders has the earnings released and asks for
\* withdrawals, which the admin approves and completes, one call at a time.
NextPayout ==
    \/ \E e \in 1 .. NumReq : PayAdminReleaseCall(e)
    \/ \E a \in {sellerAmount(UnitPrice), 2 * sellerAmount(UnitPrice)} : PayRequestWithdrawal(a)
    \/ \E w \in 1 .. MaxPayouts : PayApproveWithdrawal(w) \/ PayCompleteWithdrawal(w)

SpecPayout == TwoOrdersSettled /\ [][NextPayout]_vars

(* ============================== claims ================================ *)
Quiescent == ~InFlight
ListedIds == {i \in ItemIds : items[i].status # "absent"}
SoldIds == {i \in ItemIds : items[i].status = "sold"}
Created(r) == req[r].pc = "done" /\ req[r].result = "created"
WalletDone(r) == req[r].pc = "done" /\ req[r].method = "wallet"

RECURSIVE SumOver(_, _)
SumOver(f, S) ==
    IF S = {} THEN 0
    ELSE LET x == CHOOSE y \in S : TRUE IN f[x] + SumOver(f, S \ {x})

\* what the approved deposits paid into an account
Deposited(u) ==
    SumOver([d \in DOMAIN deposits |-> deposits[d].amount],
            {d \in DOMAIN deposits : deposits[d].userId = u /\ deposits[d].status = "approved"})

\* the totals of the wallet orders of buyer b that exist
WalletOrdersOf(b) ==
    {o \in OrderIds : orders[o].buyerId = b /\ orders[o].paymentMethod = "wallet"}
SpentBy(b) == SumOver([o \in Reqs |-> orders[o].price], WalletOrdersOf(b))

\* the credit rows of an account
CreditSum(u) ==
    SumBag(ledger, {e \in BagToSet(ledger) : e.userId = u /\ e.type = "credit"})
\* how many debit rows an account has
DebitRows(u) ==
    SumOver([e \in BagToSet(ledger) |-> CopiesIn(e, ledger)],
            {e \in BagToSet(ledger) : e.userId = u /\ e.type = "debit"})

\* a request holds a unit once reserveProductItem has returned for it
Obtained(r) == req[r].item # NoItem /\ req[r].pc \notin {"idle", "findItem", "reserve"}

\* C1: concurrent reservations of one listing obtain pairwise different
\* units, and no more requests obtain a unit than the listing holds.
C1_ReservationsDisjoint ==
    /\ \A r1, r2 \in Reqs :
          (r1 # r2 /\ Obtained(r1) /\ Obtained(r2)) => req[r1].item # req[r2].item
    /\ Cardinality({r \in Reqs : Obtained(r)}) <= Cardinality(ListedIds)

\* C2: no two paid orders carry the same unit in their delivered content.
C2_DeliveredToOneOrder ==
    \A o1, o2 \in OrderIds :
        (o1 # o2 /\ orders[o1].status = "paid" /\ orders[o2].status = "paid")
            => orders[o1].deliveredContent \cap orders[o2].deliveredContent = {}

\* C3: between calls every account's stored balance is the sum of its
\* credit rows less the sum of its debit rows.
C3_BalanceIsLedgerSum ==
    (Quiescent /\ JobsIdle) => \A u \in Users : balance[u] = LedgerSum(u)

\* the referral commissions the finished purchases of referred buyers paid to u
CommissionsTo(u) ==
    SumOver([r \in Reqs |-> commissionFor(req[r].buyer, orders[r].price)],
            {r \in Reqs : /\ Created(r) /\ req[r].method = "wallet"
                           /\ referrals[req[r].buyer].referrerId = u})

\* the totals of the wallet purchases of b that answered 201
PaidFor(b) ==
    SumOver([r \in Reqs |-> totalPrice(req[r].quantity)],
            {r \in Reqs : Created(r) /\ req[r].method = "wallet" /\ req[r].buyer = b})

\* C4: two wallet purchases of one buyer, each covered by the balance but
\* not both together, never both succeed, and the balance ends at the
\* initial balance less the totals of the orders created.
C4_NoDoubleSpend ==
    \A r1, r2 \in Reqs :
        (/\ r1 < r2 /\ WalletDone(r1) /\ WalletDone(r2)
         /\ req[r1].buyer = req[r2].buyer
         /\ req[r1].result # "error" /\ req[r2].result # "error"
         /\ totalPrice(req[r1].quantity) <= Deposited(req[r1].buyer)
         /\ totalPrice(req[r2].quantity) <= Deposited(req[r1].buyer)
         /\ totalPrice(req[r1].quantity) + totalPrice(req[r2].quantity)
               > Deposited(req[r1].buyer))
        => /\ ~(Created(r1) /\ Created(r2))
           /\ balance[req[r1].buyer] = Deposited(req[r1].buyer) - PaidFor(req[r1].buyer)

\* C5: a wallet purchase of quantity q that created an order left the order
\* paid with the payloads of q units, moved exactly q units to sold and
\* took exactly the order total from the buyer's balance.
C5_WalletPurchaseExact ==
    storeFails = 0 =>
        /\ \A r \in Reqs :
              (Created(r) /\ req[r].method = "wallet")
                  => /\ orders[r].status = "paid"
                     /\ orders[r].price = UnitPrice * req[r].quantity
                     /\ Cardinality(orders[r].deliveredContent) = req[r].quantity
                     /\ orders[r].deliveredContent \subseteq SoldIds
        /\ Quiescent =>
              /\ Cardinality(SoldIds) =
                    SumOver([r \in Reqs |-> req[r].quantity],
                            {r \in Reqs : Created(r) /\ req[r].method = "wallet"})
              /\ \A b \in Buyers :
                    balance[b] = Deposited(b) + CommissionsTo(b) - PaidFor(b)

\* C6: a wallet purchase that failed charged nothing: between requests
\* every buyer's debit rows are those of the wallet orders that exist, and
\* the balance is the credits less the totals of those orders.
C6_NoChargeWithoutOrder ==
    Quiescent =>
        \A b \in Buyers :
            /\ DebitRows(b) = Cardinality(WalletOrdersOf(b))
            /\ balance[b] = CreditSum(b) - SpentBy(b)

\* C7: one available unit, two buyers with enough balance, two wallet
\* purchases of quantity 1 in the same half-hour: exactly one order is
\* paid and the other request is refused for lack of inventory.
C7_ExactlyOnePaid ==
    (/\ \A r \in Reqs : WalletDone(r) /\ req[r].quantity = 1
     /\ Cardinality({req[r].buyer : r \in Reqs}) = NumReq
     /\ NumReq = 2
     /\ Cardinality(ListedIds) = 1
     /\ storeFails = 0)
    => /\ Cardinality({o \in OrderIds : orders[o].status = "paid"}) = 1
       /\ Cardinality({r \in Reqs : req[r].result = "no_items"}) = 1

\* C8: the first wallet purchase on a fresh listing of q units (stock q,
\* all q available), by a buyer whose balance covers the total and with no
\* other request running, is not refused for lack of inventory.
C8_SoloPurchaseSucceeds ==
    (/\ WalletDone(1)
     /\ req[1].quantity = Cardinality(ListedIds)
     /\ totalPrice(req[1].quantity) <= Deposited(req[1].buyer))
    => req[1].result \in {"created", "error"}

\* the credit rows the release of earning e wrote
ReleaseCredits(e) ==
    CopiesIn([userId |-> earnings[e].sellerId, type |-> "credit",
              amount |-> earnings[e].amount, relatedOrderId |-> earnings[e].orderId],
             ledger)

\* C9: however often release is attempted, by overlapping sweeps or by a
\* sweep and an admin release, each pending earning credits the seller
\* once: one credit row, one balance increase.
C9_CreditedOnce ==
    /\ \A e \in EarningIds : ReleaseCredits(e) <= 1
    /\ JobsIdle =>
          balance[Seller] =
              SumOver([e \in EarningIds |-> earnings[e].amount],
                      {e \in EarningIds : ReleaseCredits(e) >= 1})

\* C10: released and cancelled are terminal: a pending earning that has
\* left pending keeps its status, and no step credits a cancelled one.
C10_TerminalEarnings ==
    [][\A e \in EarningIds :
          /\ earnings[e].status \in {"released", "cancelled"}
                => earnings'[e].status = earnings[e].status
          /\ earnings[e].status = "cancelled"
                => ReleaseCredits(e)' = ReleaseCredits(e)]_vars

\* C11: a unit that is sold stays sold: no step of an order request, an
\* admin confirm or cancel, or a cleanup gives it another status.
C11_SoldIsFinal ==
    [][\A i \in ItemIds : items[i].status = "sold" => items'[i].status = "sold"]_vars

\* the status changes the order life cycle allows, creation included
AllowedMoves ==
    {<<"none", "pending_payment">>, <<"none", "paid">>,
     <<"pending_payment", "pending_confirmation">>,
     <<"pending_confirmation", "paid">>,
     <<"pending_payment", "cancelled">>,
     <<"pending_confirmation", "cancelled">>,
     <<"paid", "refunded">>}

\* C12: an order's status changes only along the life cycle: cancelled and
\* refunded are final and a paid order only ever becomes refunded.
C12_OrderLifeCycle ==
    [][\A o \in Reqs :
          \/ orders'[o].status = orders[o].status
          \/ <<orders[o].status, orders'[o].status>> \in AllowedMoves]_vars

\* C13: an admin confirm of an order that is not pending_confirmation is
\* refused: order, units, stock, pending earnings and balances stay as
\* they are.
C13_ConfirmOnlyAwaitingConfirmation ==
    [][\A o \in Reqs :
          (AdminConfirm(o) /\ orders[o].status # "pending_confirmation")
              => UNCHANGED <<orders, items, stock, earnings, balance>>]_vars

\* C14: an admin cancel of an order awaiting payment or confirmation
\* cancels it and frees its unit, expiry cleared; on a paid, cancelled or
\* refunded order it changes neither the order nor any unit.
C14_CancelOnlyLiveOrders ==
    [][\A o \in Reqs :
          AdminCancel(o) =>
              IF orders[o].status \in {"pending_payment", "pending_confirmation"}
              THEN /\ orders'[o].status = "cancelled"
                   /\ (orders[o].productItemId # NoItem
                        /\ items[orders[o].productItemId].status # "absent")
                          => items'[orders[o].productItemId] =
                                 [status |-> "available", reservedUntil |-> NoTime]
              ELSE UNCHANGED <<orders, items>>]_vars

\* a price less the platform fee of 5 in 100
NetOfFee(price) == price - (price * FeePercent) \div 100

PaidEvents(o) == Cardinality({e \in EarningIds : earnings[e].orderId = o})
HasActiveLink(b) == referrals[b].referrerId # "none" /\ referrals[b].isActive
\* price x rate for prices in whole hundreds and rates in hundredths of a percent
RateOf(price, rate) == (price \div (100 * 100)) * rate
\* what the paid orders of referred buyers owe: to referrer u, or on the
\* link of buyer b
OwedTo(u) ==
    SumOver([o \in Reqs |-> PaidEvents(o)
                             * RateOf(orders[o].price, referrals[orders[o].buyerId].commissionRate)],
            {o \in OrderIds : /\ HasActiveLink(orders[o].buyerId)
                              /\ referrals[orders[o].buyerId].referrerId = u})
OwedOnLink(b) ==
    SumOver([o \in Reqs |-> PaidEvents(o)
                             * RateOf(orders[o].price, referrals[b].commissionRate)],
            {o \in OrderIds : HasActiveLink(b) /\ orders[o].buyerId = b})
\* the credit rows that carry order o
RowsOf(o) == {e \in BagToSet(ledger) : e.relatedOrderId = o /\ e.type = "credit"}

C17_ExpiredCountsAsAvailable ==
    [][\A r \in Reqs :
          /\ (FindItem(r) /\ AvailableIds(items) \cup ExpiredIds(items) # {})
                => /\ req'[r].pc = "reserve"
                   /\ req'[r].item \in AvailableIds(items) \cup ExpiredIds(items)
          /\ ResetExpired(r) => ExpiredIds(items) \subseteq AvailableIds(items')]_vars

\* C18: an order that has been pending_payment for more than 30 minutes
\* does not stay so: the cleanup, running in the background, cancels it
\* and frees its unit (unless it is paid for first); and no order younger
\* than 30 minutes is cancelled by the cleanup.
C18_StaleOrdersCancelled ==
    /\ \A o \in Reqs :
          (o \in StaleOrderIds) ~> (orders[o].status # "pending_payment")
    /\ [][\A o \in Reqs :
            (orders[o].status = "pending_payment" /\ orders'[o].status = "cancelled")
                => orders[o].createdAt < now - ReserveTicks]_vars

\* C19: the cleanup cancels an order and frees its unit only if the order
\* is still pending_payment when the update runs: an order confirmed since
\* the select is left as it is, and so is its unit.
C19_SweepRespectsConfirmation ==
    [][\A j \in JobIds :
          /\ (CleanupItem(j) /\ orders[Head(jobs[j].list)].status # "pending_payment")
                => items' = items
          /\ (CleanupOrder(j) /\ orders[Head(jobs[j].list)].status # "pending_payment")
                => orders' = orders]_vars

\* C20: the listing's stock is never negative.
C20_StockNotNegative == stock >= 0

\* C21: no account balance is ever negative: a debit larger than the balance
\* it is applied to is refused, for wallet purchases and for withdrawal
\* completions, several withdrawals against one balance included.
C21_NoNegativeBalance == \A u \in Users : balance[u] >= 0

\* the paid orders
PaidIds == {o \in OrderIds : orders[o].status = "paid"}

\* C22: a paid order of quantity q has delivered q units: its payload holds
\* q units, all of them sold, on the wallet path and on the admin-confirmed
\* path alike; and the stock has gone down by the units the paid orders
\* took.
C22_PaidOrderDeliversQuantity ==
    Quiescent =>
        /\ \A o \in PaidIds :
              /\ Cardinality(orders[o].deliveredContent) = orders[o].quantity
              /\ orders[o].deliveredContent \subseteq SoldIds
        /\ (storeFails = 0 /\ listed) =>
              Cardinality(ListedIds) - stock
                  = SumOver([o \in Reqs |-> Cardinality(orders[o].deliveredContent)], PaidIds)

\* the steps of a wallet purchase that come after the debit of the buyer
AfterDebit ==
    {"debitEntry", "createOrder", "deliver", "updateStock", "createEarning",
     "getReferral", "refCredit", "refEntry", "refEarned", "refTotal"}
\* the buyer's debit for request r has been applied
Debited(r) ==
    \/ req[r].pc \in AfterDebit
    \/ req[r].pc = "done" /\ req[r].result \in {"created", "error"}
EarningOf(r) == {e \in EarningIds : earnings[e].orderId = r}

\* C23: the steps of one wallet order come in the order allocate, debit,
\* mark sold, create pending earning: the debit is applied only once the
\* units are allocated, a unit is marked sold for the order only once the
\* debit is applied, and the earning is created only once all its units
\* are sold.
C23_StepOrder ==
    \A r \in Reqs :
        req[r].method = "wallet" =>
            /\ Debited(r) => req[r].sel # {}
            /\ req[r].sold # {} => Debited(r)
            /\ EarningOf(r) # {} => (req[r].sel # {} /\ req[r].sold = req[r].sel)

\* the earning moves to released in this step
MovesToReleased(e) == earnings[e].status # "released" /\ earnings'[e].status = "released"

\* C24: the seller's wallet grows only by the credit step of a call that
\* has moved the earning to released; and a sweep releases a record only if
\* the record is pending and due (releaseAt <= now) when it releases it, so
\* no sweep credits before the hold of three days is over.
C24_ReleaseOnlyDuePending ==
    [][/\ balance'[Seller] > balance[Seller]
             => \E j \in JobIds : CreditSeller(j) /\ jobs[j].kind \in {"sweep", "release"}
       /\ \A j \in JobIds :
             /\ (SweepRelease(j) /\ jobs[j].list # <<>>)
                   => /\ earnings[Head(jobs[j].list)].status = "pending"
                      /\ earnings[Head(jobs[j].list)].releaseAt <= now
                      /\ MovesToReleased(Head(jobs[j].list))
             /\ (CreditSeller(j) /\ jobs[j].kind = "sweep")
                   => earnings[jobs[j].id].releaseAt <= now]_vars

\* C25: a failure while one record is released does not stop the sweep,
\* and the failed record is taken up again by a later sweep: between
\* sweeps every released earning has exactly one credit row of the seller
\* for its amount and order, and the seller's balance is the sum of the
\* released amounts.
C25_ReleasedMeansCredited ==
    JobsIdle =>
        /\ \A e \in EarningIds :
              earnings[e].status = "released" => ReleaseCredits(e) = 1
        /\ balance[Seller] =
              SumOver([e \in EarningIds |-> earnings[e].amount],
                      {e \in EarningIds : earnings[e].status = "released"})

\* C26: both cleanup sweeps are idempotent. Right after a cleanup call a
\* second run of the expired-reservation sweep finds no row and changes no
\* unit, and a second run of the stale-order sweep finds no order and
\* changes no unit and no order.
C26_CleanupIdempotent ==
    [][(req' = req /\ now' = now /\ AdminCleanup) =>
          /\ ExpiredIds(items)' = {}
          /\ resetExpired(items)' = items'
          /\ StaleOrderIds' = {}
          /\ releaseItemsOf(items, StaleOrderIds)' = items'
          /\ [o \in Reqs |-> IF o \in StaleOrderIds
                              THEN [orders[o] EXCEPT !.status = "cancelled"]
                              ELSE orders[o]]' = orders']_vars

\* a cleanup has cancelled a stale order and freed its unit
C26_Witness ==
    /\ adminOps = 0
    /\ \E o \in OrderIds :
          /\ orders[o].status = "cancelled"
          /\ orders[o].productItemId # NoItem
          /\ items[orders[o].productItemId].status = "available"

\* C27: no two units in the store carry the same non-empty fingerprint.
C27_UniqueFingerprint ==
    \A i, j \in ItemIds :
        (/\ i # j
         /\ items[i].status # "absent" /\ items[j].status # "absent"
         /\ itemUid[i] # NoUid)
        => itemUid[i] # itemUid[j]

\* the referrals rows whose referred user is u
LinksOf(u) == {n \in 1 .. Len(links) : links[n].referredId = u}

\* C28: a user is the referred side of at most one referral link, and no
\* link has the same user as referrer and referred.
C28_OneLinkPerReferred ==
    /\ \A u \in Users : Cardinality(LinksOf(u)) <= 1
    /\ \A n \in 1 .. Len(links) : links[n].referrerId # links[n].referredId

\* request r, an external-settlement request, takes a step (its arrival
\* included)
QrStep(r) == req'[r] # req[r] /\ req'[r].method = "qr"

C30_ConfirmPaymentFrame ==
    [][\A j \in JobIds :
          /\ StartConfirmPayment(j) =>
                (jobs'[j].pc = "update") =
                    (/\ orders[jobs'[j].id].status = "pending_payment"
                     /\ orders[jobs'[j].id].buyerId = jobs'[j].caller)
          /\ ConfirmPaymentUpdate(j) =>
                /\ orders[jobs[j].id].status = "pending_payment"
                /\ orders' = [orders EXCEPT ![jobs[j].id].status = "pending_confirmation"]
                /\ UNCHANGED <<balance, ledger, items, stock, earnings>>]_vars
\* the external-settlement order o is confirmed by the admin in this step:
\* a pending earning for o is added and no request takes a step
ConfirmsQr(o) ==
    /\ req' = req
    /\ orders[o].status # "none" /\ orders[o].paymentMethod = "qr"
    /\ Len(earnings') = Len(earnings) + 1
    /\ earnings'[Len(earnings')].orderId = o

\* C31: an order's price is the listing's price at creation times the
\* quantity and never changes afterwards; when the admin confirms an
\* external-settlement order, the pending earning is that price less the
\* fee and the referrer is credited that price times the link's rate,
\* whatever the listing's price has become.
C31_PriceFixedAtCreation ==
    [][/\ \A o \in Reqs :
             IF orders[o].status = "none"
             THEN orders'[o].status # "none"
                     => orders'[o].price = productPrice * orders'[o].quantity
             ELSE orders'[o].price = orders[o].price
       /\ \A o \in Reqs : ConfirmsQr(o) =>
             LET b == orders[o].buyerId
                 c == IF HasActiveLink(b)
                      THEN RateOf(orders[o].price, referrals[b].commissionRate) ELSE 0
             IN  /\ earnings'[Len(earnings')].amount = NetOfFee(orders[o].price)
                 /\ \A u \in Users :
                       balance'[u] = balance[u]
                                     + (IF HasActiveLink(b) /\ referrals[b].referrerId = u
                                        THEN c ELSE 0)]_vars

\* an external-settlement order of a referred buyer, created at the first
\* price, was confirmed after the listing's price was doubled and its
\* category changed: the stock untouched by the confirmation shows that the
\* edit came first
C31_Witness ==
    /\ productPrice = 2 * UnitPrice /\ category = "software"
    /\ stock = Cardinality({i \in ItemIds : items[i].status # "absent"})
    /\ \E o \in Reqs :
          /\ orders[o].status = "paid" /\ orders[o].paymentMethod = "qr"
          /\ orders[o].price = UnitPrice * orders[o].quantity
          /\ HasActiveLink(orders[o].buyerId)
          /\ \E e \in EarningIds : earnings[e].orderId = o

\* the admin confirms order o in this step
Confirms(o) ==
    /\ req' = req
    /\ Len(earnings') = Len(earnings) + 1
    /\ earnings'[Len(earnings')].orderId = o

\* C32: while the listing is of the software category, no step of an order
\* request changes a unit or the stock, a request never ends for lack of
\* stock or of units whatever its quantity, the order it creates is bound to
\* no unit, and an admin confirmation leaves the stock alone and, for an
\* order bound to no unit, the units too.
C32_SoftwareUnlimited ==
    [][category = "software" =>
          /\ \A r \in Reqs : req'[r] # req[r] =>
                /\ UNCHANGED <<items, stock>>
                /\ req'[r].result \notin {"no_stock", "no_items"}
                /\ orders'[r] # orders[r] => orders'[r].productItemId = NoItem
          /\ \A o \in Reqs : Confirms(o) =>
                /\ stock' = stock
                /\ orders[o].productItemId = NoItem => items' = items]_vars

\* the listing is of the software category; a wallet order for more than the
\* stock count was paid and an external-settlement order was confirmed, both
\* bound to no unit
C32_Witness ==
    /\ category = "software"
    /\ \E o \in Reqs :
          /\ orders[o].status = "paid" /\ orders[o].paymentMethod = "wallet"
          /\ orders[o].productItemId = NoItem /\ orders[o].quantity > stock
    /\ \E o \in Reqs :
          /\ orders[o].status = "paid" /\ orders[o].paymentMethod = "qr"
          /\ orders[o].productItemId = NoItem
          /\ \E e \in EarningIds : earnings[e].orderId = o

\* C33: a unit's reservedUntil is set exactly when its status is reserved,
\* and a pending earning's releasedAt is set exactly when its status is
\* released or cancelled.
C33_TimestampsMatchStatus ==
    /\ \A i \in ItemIds :
          items[i].status # "absent"
             => ((items[i].reservedUntil # NoTime) <=> (items[i].status = "reserved"))
    /\ \A e \in EarningIds :
          (earnings[e].releasedAt # NoTime)
             <=> (earnings[e].status \in {"released", "cancelled"})

\* the unit reserved for an external-settlement order was sold by the
\* admin's confirmation, and the order's earning has left pending
C33_Witness ==
    \E o \in OrderIds :
       /\ orders[o].paymentMethod = "qr" /\ orders[o].status = "paid"
       /\ orders[o].productItemId # NoItem
       /\ items[orders[o].productItemId].status = "sold"
       /\ \E e \in EarningIds :
             earnings[e].orderId = o /\ earnings[e].status \in {"released", "cancelled"}

\* the pending_earnings rows of order o
EarningsOf(o) == {e \in EarningIds : earnings[e].orderId = o}

\* C34: an order has at most one pending earning.
C34_OneEarningPerOrder ==
    \A o \in Reqs : Cardinality(EarningsOf(o)) <= 1

\* order o awaits its payment and is less than 30 minutes old, or awaits
\* the admin's confirmation
LiveOrder(o) ==
    \/ orders[o].status = "pending_payment" /\ now - orders[o].createdAt < ReserveTicks
    \/ orders[o].status = "pending_confirmation"

\* C35: the unit bound to a live order has not been sold, is bound to no
\* other order that is not cancelled and is delivered to no other order;
\* stated for the behaviours in which the admin has confirmed or cancelled
\* no order, so that only order requests, the buyer's confirm-payment, the
\* cleanup and the clock have acted.
C35_BoundUnitKept ==
    adminOps = 0 =>
        \A o \in OrderIds :
            (LiveOrder(o) /\ orders[o].productItemId # NoItem) =>
                /\ items[orders[o].productItemId].status # "sold"
                /\ \A p \in OrderIds \ {o} :
                      /\ orders[p].status # "cancelled"
                            => orders[p].productItemId # orders[o].productItemId
                      /\ orders[o].productItemId \notin orders[p].deliveredContent

\* the units of the listing that are not sold
UnsoldIds == {i \in ItemIds : items[i].status \in {"available", "reserved"}}

\* C36: when no request is in flight, the listing's stock count is the
\* number of its units that are not sold.
C36_StockCountsUnsold ==
    (~InFlight /\ listed) => stock = Cardinality(UnsoldIds)

\* the wallet purchase r was rejected for its balance or for the units left
RejectedWallet(r) ==
    /\ req[r].pc = "done" /\ req[r].method = "wallet"
    /\ req[r].result \in {"no_balance", "no_items"}

\* C37: a wallet purchase that was rejected for its balance or for the
\* units left has reserved no unit.
C37_RejectedWalletReservesNothing ==
    \A r \in Reqs : RejectedWallet(r) => req[r].item = NoItem

\* earning e is pending and its hold is over
Due(e) == earnings[e].status = "pending" /\ earnings[e].releaseAt <= now

\* earning e is released and the seller's ledger has the credit row for it,
\* which the run writes after it has added the amount to the balance
Credited(e) == earnings[e].status = "released" /\ ReleaseCredits(e) >= 1

\* C38: every earning that is pending with its hold over is eventually
\* cancelled by the admin or released and credited to the seller.
C38_DueEarningsReleased ==
    \A e \in 1 .. NumReq :
        (e \in EarningIds /\ Due(e))
            ~> (e \in EarningIds /\ (earnings[e].status = "cancelled" \/ Credited(e)))

\* C39: the credits of an account never exceed its approved deposits: a
\* deposit is credited once at most, and only while it is approved.
C39_DepositCreditedOnce ==
    \A u \in Users : CreditSum(u) <= Deposited(u) /\ balance[u] <= Deposited(u)

====
